---- MODULE Spec2Model ----
(***************************************************************************)
(* Exchange ICS sync service (app.py): the refresh / cache / serve         *)
(* lifecycle.  One main thread performs the initial sync, starts the       *)
(* background worker thread and then runs the HTTP server; the server's    *)
(* event loop runs one handler at a time (the handlers are coroutines      *)
(* without an await), concurrently with the worker thread.                 *)
(*                                                                         *)
(* Strings are sequences of symbols.  An optional value is None (<<>>) or  *)
(* Some(v) (<<v>>), so that an absent string and the empty string differ.  *)
(***************************************************************************)
EXTENDS Integers, Sequences, FiniteSets

VARIABLES
    config,          \* the loaded configuration (app.py:87, set in main)
    calendar_cache,  \* app.py:84
    last_sync_time,  \* app.py:86
    cache_lock,      \* app.py:85: "free" or the name of the holder
    main_pc,         \* position of main()
    main_ical,       \* main's local ical_data
    worker_pc,       \* position of sync_calendar_worker()
    worker_ical,     \* the worker's local ical_data
    clock,           \* the wall clock read by datetime.now
    attempts,        \* fetch attempts started so far
    cache_by,        \* history: the attempt that wrote calendar_cache
    time_by,         \* history: the attempt that wrote last_sync_time
    slept,           \* history: the worker slept since the last fetch attempt
    view_window,     \* history: the window of the last account.calendar.view call
    request,         \* the request being handled (or the last one handled)
    handler_pc,      \* position of the request handler
    handler_seen,    \* health: the value read by the condition of line 307
    handler_log,     \* what the handler logged for this request
    response         \* the response of the handler, None until produced

vars == <<config, calendar_cache, last_sync_time, cache_lock, main_pc, main_ical,
          worker_pc, worker_ical, clock, attempts, cache_by, time_by, slept,
          view_window,
          request, handler_pc, handler_seen, handler_log, response>>

None == <<>>
Some(v) == <<v>>

(***************************************************************************)
(* Bounds of the model.                                                    *)
(***************************************************************************)
MaxAttempts == 3
FetchSeconds == 1

(***************************************************************************)
(* String helpers: str.startswith, str.lstrip(ch), str.replace.            *)
(***************************************************************************)
startswith(s, p) == Len(s) >= Len(p) /\ SubSeq(s, 1, Len(p)) = p

RECURSIVE lstrip(_, _)
lstrip(s, ch) ==
    IF s # <<>> /\ Head(s) = ch THEN lstrip(Tail(s), ch) ELSE s

RECURSIVE replace(_, _, _)
replace(s, old, new) ==
    IF s = <<>> THEN <<>>
    ELSE IF startswith(s, old)
         THEN new \o replace(SubSeq(s, Len(old) + 1, Len(s)), old, new)
         ELSE <<Head(s)>> \o replace(Tail(s), old, new)

\* dict.get(key, default) on an optional entry
get(entry, default) == IF entry = None THEN default ELSE entry[1]

(***************************************************************************)
(* Configuration (load_config).  Every key read with .get may be absent.   *)
(* The secret is an ASCII string, as hmac.compare_digest requires of str.  *)
(***************************************************************************)
Secret == <<"s", "3">>
Placeholder == "{calendar_name}"
DefaultUrlPath == <<"/", "cal", "/", Placeholder, ".ics">>
DefaultSyncIntervalMinutes == 15

Configs ==
    [ token : {None, Some(<<>>), Some(Secret)},
      secure_healthcheck : {None, Some(TRUE), Some(FALSE)},
      name : {None, Some(<<"T">>)},
      calendar_url_path : {None},
      sync_interval_minutes : {None},
      days_past : {None},
      days_future : {None} ]

\* sync_interval of line 277, in seconds
sync_interval(cfg) == get(cfg.sync_interval_minutes, DefaultSyncIntervalMinutes) * 60

(***************************************************************************)
(* CalendarSource: fetch_calendar_events either raises or returns the      *)
(* encoded calendar of the items the upstream view yields.                 *)
(***************************************************************************)
UpstreamViews == {<<>>, <<"item1">>}

convert_exchange_item_to_ical_event(item) == <<"VEVENT", item>>

RECURSIVE add_components(_)
add_components(items) ==
    IF items = <<>> THEN <<>>
    ELSE <<convert_exchange_item_to_ical_event(Head(items))>> \o add_components(Tail(items))

fetch_calendar_events(items) ==
    <<"BEGIN:VCALENDAR">> \o add_components(items) \o <<"END:VCALENDAR">>

DefaultDaysPast == 30
DefaultDaysFuture == 365
SecondsPerDay == 86400

\* timedelta(days=n), in seconds
timedelta(days) == days * SecondsPerDay

\* fetch_calendar_events, lines 231-243: the window asked of account.calendar.view
calendar_view(cfg, now) ==
    LET days_past == get(cfg.days_past, DefaultDaysPast)
        days_future == get(cfg.days_future, DefaultDaysFuture)
    IN  [now |-> now, start |-> now, end |-> now + timedelta(days_future)]

(***************************************************************************)
(* Initial state: module globals of lines 83-87, main() about to run its   *)
(* initial sync with a configuration already loaded.                       *)
(***************************************************************************)
InitGlobals ==
    /\ view_window = None
    /\ calendar_cache = None
    /\ last_sync_time = None
    /\ cache_lock = "free"
    /\ main_pc = "initial_fetch"
    /\ main_ical = None
    /\ worker_pc = "not_started"
    /\ worker_ical = None
    /\ clock = 0
    /\ attempts = 0
    /\ cache_by = 0
    /\ time_by = 0
    /\ slept = FALSE
    /\ request = None
    /\ handler_pc = "idle"
    /\ handler_seen = None
    /\ handler_log = "none"
    /\ response = None

Init == config \in Configs /\ InitGlobals

handler_vars == <<request, handler_pc, handler_seen, handler_log, response>>
main_vars == <<main_pc, main_ical>>
worker_vars == <<worker_pc, worker_ical, slept>>

(***************************************************************************)
(* main(): the initial sync (lines 367-378), then the worker thread and    *)
(* the HTTP server are started (lines 380-402).                            *)
(***************************************************************************)
MainFetchOk ==
    /\ main_pc = "initial_fetch"
    /\ attempts < MaxAttempts
    /\ \E items \in UpstreamViews : main_ical' = Some(fetch_calendar_events(items))
    /\ main_pc' = "initial_lock"
    /\ attempts' = attempts + 1
    /\ clock' = clock + FetchSeconds
    /\ view_window' = Some(calendar_view(config, clock))
    /\ UNCHANGED <<config, calendar_cache, last_sync_time, cache_lock, cache_by, time_by>>
    /\ UNCHANGED <<worker_vars, handler_vars>>

\* main leaving the process when the initial sync fails
MainFetchFail_exits ==
    /\ main_pc = "initial_fetch"
    /\ attempts < MaxAttempts
    /\ main_pc' = "exited"
    /\ attempts' = attempts + 1
    /\ clock' = clock + FetchSeconds
    /\ view_window' \in {view_window, Some(calendar_view(config, clock))}
    /\ UNCHANGED <<config, calendar_cache, last_sync_time, cache_lock, cache_by, time_by>>
    /\ UNCHANGED <<main_ical, worker_vars, handler_vars>>

MainFetchFail ==
    /\ main_pc = "initial_fetch"
    /\ attempts < MaxAttempts
    /\ main_pc' = "start_worker"
    /\ attempts' = attempts + 1
    /\ clock' = clock + FetchSeconds
    /\ view_window' \in {view_window, Some(calendar_view(config, clock))}
    /\ UNCHANGED <<config, calendar_cache, last_sync_time, cache_lock, cache_by, time_by>>
    /\ UNCHANGED <<main_ical, worker_vars, handler_vars>>

MainAcquire ==
    /\ main_pc = "initial_lock"
    /\ cache_lock = "free"
    /\ cache_lock' = "main"
    /\ main_pc' = "initial_write_cache"
    /\ UNCHANGED <<config, view_window, calendar_cache, last_sync_time, clock, attempts, cache_by, time_by>>
    /\ UNCHANGED <<main_ical, worker_vars, handler_vars>>

MainWriteCache ==
    /\ main_pc = "initial_write_cache"
    /\ calendar_cache' = main_ical
    /\ cache_by' = attempts
    /\ main_pc' = "initial_write_time"
    /\ UNCHANGED <<config, view_window, last_sync_time, cache_lock, clock, attempts, time_by>>
    /\ UNCHANGED <<main_ical, worker_vars, handler_vars>>

MainWriteTime ==
    /\ main_pc = "initial_write_time"
    /\ last_sync_time' = Some(clock)
    /\ time_by' = attempts
    /\ main_pc' = "initial_unlock"
    /\ UNCHANGED <<config, view_window, calendar_cache, cache_lock, clock, attempts, cache_by>>
    /\ UNCHANGED <<main_ical, worker_vars, handler_vars>>

MainRelease ==
    /\ main_pc = "initial_unlock"
    /\ cache_lock' = "free"
    /\ main_pc' = "start_worker"
    /\ UNCHANGED <<config, view_window, calendar_cache, last_sync_time, clock, attempts, cache_by, time_by>>
    /\ UNCHANGED <<main_ical, worker_vars, handler_vars>>

MainStartWorker ==
    /\ main_pc = "start_worker"
    /\ main_pc' = "run_server"
    /\ worker_pc' = "fetch"
    /\ UNCHANGED <<config, view_window, calendar_cache, last_sync_time, cache_lock, clock, attempts,
                   cache_by, time_by>>
    /\ UNCHANGED <<main_ical, worker_ical, slept, handler_vars>>

MainRunServer ==
    /\ main_pc = "run_server"
    /\ main_pc' = "serving"
    /\ UNCHANGED <<config, view_window, calendar_cache, last_sync_time, cache_lock, clock, attempts,
                   cache_by, time_by>>
    /\ UNCHANGED <<main_ical, worker_vars, handler_vars>>

(***************************************************************************)
(* sync_calendar_worker(): lines 279-293.                                  *)
(***************************************************************************)
WorkerFetchOk ==
    /\ worker_pc = "fetch"
    /\ attempts < MaxAttempts
    /\ \E items \in UpstreamViews : worker_ical' = Some(fetch_calendar_events(items))
    /\ worker_pc' = "lock"
    /\ attempts' = attempts + 1
    /\ clock' = clock + FetchSeconds
    /\ slept' = FALSE
    /\ view_window' = Some(calendar_view(config, clock))
    /\ UNCHANGED <<config, calendar_cache, last_sync_time, cache_lock, cache_by, time_by>>
    /\ UNCHANGED <<main_vars, handler_vars>>

\* a failed fetch that drops the cached document
WorkerFetchFail_clears ==
    /\ worker_pc = "fetch"
    /\ attempts < MaxAttempts
    /\ worker_pc' = "sleep"
    /\ attempts' = attempts + 1
    /\ clock' = clock + FetchSeconds
    /\ slept' = FALSE
    /\ calendar_cache' = None
    /\ UNCHANGED <<config, view_window, last_sync_time, cache_lock, cache_by, time_by>>
    /\ UNCHANGED <<worker_ical, main_pc, main_ical,
                   request, handler_pc, handler_seen, handler_log, response>>

\* the loop ending on a fetch error
WorkerFetchFail_stops ==
    /\ worker_pc = "fetch"
    /\ attempts < MaxAttempts
    /\ worker_pc' = "stopped"
    /\ attempts' = attempts + 1
    /\ clock' = clock + FetchSeconds
    /\ slept' = FALSE
    /\ view_window' \in {view_window, Some(calendar_view(config, clock))}
    /\ UNCHANGED <<config, calendar_cache, last_sync_time, cache_lock, cache_by, time_by>>
    /\ UNCHANGED <<worker_ical, main_vars, handler_vars>>

\* lines 282 and 290-291: fetch_calendar_events raises, the loop logs and goes on
WorkerFetchFail ==
    /\ worker_pc = "fetch"
    /\ attempts < MaxAttempts
    /\ worker_pc' = "sleep"
    /\ attempts' = attempts + 1
    /\ clock' = clock + FetchSeconds
    /\ slept' = FALSE
    /\ view_window' \in {view_window, Some(calendar_view(config, clock))}
    /\ UNCHANGED <<config, calendar_cache, last_sync_time, cache_lock, cache_by, time_by>>
    /\ UNCHANGED <<worker_ical, main_vars, handler_vars>>

\* the worker going on to its writes without taking cache_lock
WorkerAcquire_unlocked ==
    /\ worker_pc = "lock"
    /\ worker_pc' = "write_cache"
    /\ UNCHANGED <<config, view_window, calendar_cache, last_sync_time, cache_lock, clock, attempts,
                   cache_by, time_by>>
    /\ UNCHANGED <<worker_ical, slept, main_pc, main_ical,
                   request, handler_pc, handler_seen, handler_log, response>>

WorkerAcquire ==
    /\ worker_pc = "lock"
    /\ cache_lock = "free"
    /\ cache_lock' = "worker"
    /\ worker_pc' = "write_cache"
    /\ UNCHANGED <<config, view_window, calendar_cache, last_sync_time, clock, attempts, cache_by, time_by>>
    /\ UNCHANGED <<worker_ical, slept, main_vars, handler_vars>>

WorkerWriteCache ==
    /\ worker_pc = "write_cache"
    /\ calendar_cache' = worker_ical
    /\ cache_by' = attempts
    /\ worker_pc' = "write_time"
    /\ UNCHANGED <<config, view_window, last_sync_time, cache_lock, clock, attempts, time_by>>
    /\ UNCHANGED <<worker_ical, slept, main_vars, handler_vars>>

\* the worker completing a refresh without a new timestamp
WorkerWriteTime_stale ==
    /\ worker_pc = "write_time"
    /\ time_by' = attempts
    /\ worker_pc' = "unlock"
    /\ UNCHANGED <<config, view_window, calendar_cache, last_sync_time, cache_lock, clock, attempts,
                   cache_by>>
    /\ UNCHANGED <<worker_ical, slept, main_pc, main_ical,
                   request, handler_pc, handler_seen, handler_log, response>>

WorkerWriteTime ==
    /\ worker_pc = "write_time"
    /\ last_sync_time' = Some(clock)
    /\ time_by' = attempts
    /\ worker_pc' = "unlock"
    /\ UNCHANGED <<config, view_window, calendar_cache, cache_lock, clock, attempts, cache_by>>
    /\ UNCHANGED <<worker_ical, slept, main_vars, handler_vars>>

\* the worker going to sleep without leaving the with block
WorkerRelease_keeps ==
    /\ worker_pc = "unlock"
    /\ worker_pc' = "sleep"
    /\ UNCHANGED <<config, view_window, calendar_cache, last_sync_time, clock, attempts, cache_by, time_by>>
    /\ UNCHANGED <<cache_lock, worker_ical, slept, main_vars, handler_vars>>

WorkerRelease ==
    /\ worker_pc = "unlock"
    /\ cache_lock' = "free"
    /\ worker_pc' = "sleep"
    /\ UNCHANGED <<config, view_window, calendar_cache, last_sync_time, clock, attempts, cache_by, time_by>>
    /\ UNCHANGED <<worker_ical, slept, main_vars, handler_vars>>

\* the stored document expiring while the worker sleeps
WorkerSleep_expires ==
    /\ worker_pc = "sleep"
    /\ worker_pc' = "fetch"
    /\ clock' = clock + sync_interval(config)
    /\ slept' = TRUE
    /\ calendar_cache' = None
    /\ UNCHANGED <<config, view_window, last_sync_time, cache_lock, attempts, cache_by, time_by>>
    /\ UNCHANGED <<worker_ical, main_vars, handler_vars>>

\* line 293
WorkerSleep ==
    /\ worker_pc = "sleep"
    /\ worker_pc' = "fetch"
    /\ clock' = clock + sync_interval(config)
    /\ slept' = TRUE
    /\ UNCHANGED <<config, view_window, calendar_cache, last_sync_time, cache_lock, attempts, cache_by, time_by>>
    /\ UNCHANGED <<worker_ical, main_vars, handler_vars>>

(***************************************************************************)
(* Requests.  The path is the request path; the credential is an optional  *)
(* Authorization header and an optional token query parameter.             *)
(***************************************************************************)
Bearer == <<"B", "e", "a", "r", "e", "r", " ">>
Basic == <<"B", "a", "s", "i", "c", " ">>
NonAscii == {"é"}

HealthPath == <<"/", "health">>

RequestPaths ==
    { HealthPath,
      <<"/", "cal", "/", "T", ".ics">>,
      <<"/", "cal", "/", "calendar", ".ics">>,
      <<"/", "wrong.ics">> }

AuthHeaders ==
    { None, Some(Bearer \o Secret), Some(Bearer \o <<"s">>), Some(Bearer),
      Some(Bearer \o <<"é">>), Some(Basic \o Secret) }

QueryTokens == { None, Some(<<>>), Some(Secret), Some(<<"s">>) }

Requests ==
    [ method : {"GET", "POST"}, path : RequestPaths,
      authorization : AuthHeaders, token : QueryTokens ]

\* hmac.compare_digest on two str: TypeError unless both are ASCII
IsAscii(s) == \A i \in DOMAIN s : s[i] \notin NonAscii
compare_digest_raises(a, b) == ~IsAscii(a) \/ ~IsAscii(b)
\* a comparison that stops at the end of the presented value
compare_digest_prefix(a, b) == startswith(b, a)
compare_digest(a, b) == a = b

\* `not x` of an optional string: None and "" are falsy
falsy(x) == x = None \/ x[1] = <<>>

(***************************************************************************)
(* Responses.                                                              *)
(***************************************************************************)
NoHeaders == [content_disposition |-> None, cache_control |-> None]

_not_found ==
    [status |-> 404, media_type |-> None, body |-> <<>>, headers |-> NoHeaders]

_http_exc_handler == _not_found
_validation_exc_handler == _not_found
\* the framework's own answer to an unhandled exception
_generic_exc_handler_500 ==
    [status |-> 500, media_type |-> Some("text/plain"),
     body |-> <<"Internal Server Error">>,
     headers |-> [content_disposition |-> None, cache_control |-> None]]
_generic_exc_handler == _not_found

_get_app_version == "unknown"

isoformat(t) == <<"iso8601", t>>

\* header lookup with default "", then the Bearer test of lines 62-65
_verify_bearer_token_raises(cfg, r) ==
    LET expected == cfg.token
        auth == get(r.authorization, <<>>)
    IN  /\ ~falsy(expected)
        /\ startswith(auth, Bearer)
        /\ compare_digest_raises(SubSeq(auth, 8, Len(auth)), expected[1])

\* the Bearer check falling back to the token query parameter
_verify_bearer_token_with_query(cfg, r) ==
    LET expected == cfg.token
        auth == get(r.authorization, <<>>)
        provided == IF startswith(auth, Bearer)
                    THEN Some(SubSeq(auth, 8, Len(auth))) ELSE r.token
    IN  IF falsy(expected) THEN FALSE
        ELSE IF falsy(provided) THEN FALSE
        ELSE compare_digest(provided[1], expected[1])

\* _verify_bearer_token, lines 55-65
_verify_bearer_token(cfg, r) ==
    LET expected == cfg.token
        auth == get(r.authorization, <<>>)
    IN  IF falsy(expected) THEN FALSE
        ELSE IF ~startswith(auth, Bearer) THEN FALSE
        ELSE compare_digest(SubSeq(auth, 8, Len(auth)), expected[1])

\* health with the gate open unless secure_healthcheck is set
health_gate_default_open(cfg, r) ==
    IF get(cfg.secure_healthcheck, FALSE)
    THEN IF _verify_bearer_token_raises(cfg, r) THEN "raise"
         ELSE IF ~_verify_bearer_token(cfg, r) THEN "not_found"
         ELSE "pass"
    ELSE "pass"

\* health, lines 301-303: "not_found", "raise" or "pass"
health_gate(cfg, r) ==
    IF get(cfg.secure_healthcheck, TRUE)
    THEN IF _verify_bearer_token_raises(cfg, r) THEN "raise"
         ELSE IF ~_verify_bearer_token(cfg, r) THEN "not_found"
         ELSE "pass"
    ELSE "pass"

\* health never filling in last_sync
health_response_no_sync(seen, now_stored) ==
    [status |-> 200, media_type |-> Some("application/json"),
     body |-> <<"status", "healthy", "last_sync", None, "version", _get_app_version>>,
     headers |-> NoHeaders]

\* health, lines 305-309; seen is the value the condition of line 307 read
health_response(seen, now_stored) ==
    [status |-> 200, media_type |-> Some("application/json"),
     body |-> <<"status", "healthy",
                "last_sync", IF seen # None THEN isoformat(now_stored[1]) ELSE None,
                "version", _get_app_version>>,
     headers |-> NoHeaders]

calendar_name(cfg) == get(cfg.name, <<"calendar">>)

\* catch_all, lines 316-318
expected_path(cfg) ==
    lstrip(replace(get(cfg.calendar_url_path, DefaultUrlPath),
                   <<Placeholder>>, calendar_name(cfg)), "/")

\* the path parameter of the route "/{path:path}"
path_param(r) == Tail(r.path)

\* the token query parameter taken before the Bearer header
provided_token_query_first(r) ==
    LET auth == get(r.authorization, <<>>)
    IN  IF r.token # None THEN r.token
        ELSE IF startswith(auth, Bearer) THEN Some(SubSeq(auth, 8, Len(auth)))
        ELSE None

\* catch_all, lines 330-335
provided_token(r) ==
    LET auth == get(r.authorization, <<>>)
    IN  IF startswith(auth, Bearer) THEN Some(SubSeq(auth, 8, Len(auth))) ELSE r.token

\* catch_all with the credential checked before the path
catch_all_gate_token_first(cfg, r) ==
    IF falsy(cfg.token) THEN [outcome |-> "not_found", log |-> "no_token_configured"]
    ELSE IF falsy(provided_token(r)) THEN [outcome |-> "not_found", log |-> "invalid_token"]
    ELSE IF compare_digest_raises(provided_token(r)[1], cfg.token[1])
         THEN [outcome |-> "raise", log |-> "unhandled_exception"]
    ELSE IF ~compare_digest(provided_token(r)[1], cfg.token[1])
         THEN [outcome |-> "not_found", log |-> "invalid_token"]
    ELSE IF path_param(r) # expected_path(cfg) THEN [outcome |-> "not_found", log |-> "none"]
    ELSE [outcome |-> "pass", log |-> "none"]

\* catch_all, lines 321-339: "not_found", "raise" or "pass", and what is logged
catch_all_gate(cfg, r) ==
    IF path_param(r) # expected_path(cfg) THEN [outcome |-> "not_found", log |-> "none"]
    ELSE IF falsy(cfg.token) THEN [outcome |-> "not_found", log |-> "no_token_configured"]
    ELSE IF falsy(provided_token(r)) THEN [outcome |-> "not_found", log |-> "invalid_token"]
    ELSE IF compare_digest_raises(provided_token(r)[1], cfg.token[1])
         THEN [outcome |-> "raise", log |-> "unhandled_exception"]
    ELSE IF ~compare_digest(provided_token(r)[1], cfg.token[1])
         THEN [outcome |-> "not_found", log |-> "invalid_token"]
    ELSE [outcome |-> "pass", log |-> "none"]

\* catch_all serving an empty calendar while the cache is empty
calendar_response_empty_200(cfg, cache) ==
    [status |-> 200, media_type |-> Some("text/calendar"),
     body |-> IF cache = None THEN <<>> ELSE cache[1],
     headers |-> [content_disposition |->
                      Some(<<"attachment; filename=">> \o calendar_name(cfg) \o <<".ics">>),
                  cache_control |-> Some(<<"max-age=", sync_interval(cfg)>>)]]

\* catch_all, lines 343-357, evaluated while cache_lock is held
calendar_response(cfg, cache) ==
    IF cache = None
    THEN [status |-> 503, media_type |-> Some("text/plain"),
          body |-> <<"Service temporarily unavailable">>, headers |-> NoHeaders]
    ELSE [status |-> 200, media_type |-> Some("text/calendar"), body |-> cache[1],
          headers |-> [content_disposition |->
                           Some(<<"attachment; filename=">> \o calendar_name(cfg) \o <<".ics">>),
                       cache_control |-> Some(<<"max-age=", sync_interval(cfg)>>)]]

(***************************************************************************)
(* The HTTP layer: routing (the decorators of lines 298 and 312 and the    *)
(* exception handlers of lines 68-81), then the two handlers.              *)
(***************************************************************************)
shared_vars == <<config, view_window, calendar_cache, last_sync_time, clock, attempts, cache_by, time_by>>

Accepting == main_pc = "serving" /\ handler_pc = "idle"

RouteMethodNotAllowed ==
    /\ Accepting
    /\ \E r \in Requests :
        /\ r.method # "GET"
        /\ request' = Some(r)
    /\ response' = Some(_http_exc_handler)
    /\ handler_log' = "none"
    /\ handler_pc' = "respond"
    /\ UNCHANGED <<handler_seen, cache_lock>>
    /\ UNCHANGED <<shared_vars, main_vars, worker_vars>>

RouteHealth ==
    /\ Accepting
    /\ \E r \in Requests :
        /\ r.method = "GET"
        /\ r.path = HealthPath
        /\ request' = Some(r)
    /\ response' = None
    /\ handler_log' = "none"
    /\ handler_pc' = "health"
    /\ UNCHANGED <<handler_seen, cache_lock>>
    /\ UNCHANGED <<shared_vars, main_vars, worker_vars>>

RouteCatchAll ==
    /\ Accepting
    /\ \E r \in Requests :
        /\ r.method = "GET"
        /\ r.path # HealthPath
        /\ request' = Some(r)
    /\ response' = None
    /\ handler_log' = "none"
    /\ handler_pc' = "catch_all"
    /\ UNCHANGED <<handler_seen, cache_lock>>
    /\ UNCHANGED <<shared_vars, main_vars, worker_vars>>

HealthNotFound ==
    /\ handler_pc = "health"
    /\ health_gate(config, request[1]) = "not_found"
    /\ response' = Some(_not_found)
    /\ handler_pc' = "respond"
    /\ UNCHANGED <<request, handler_seen, handler_log, cache_lock>>
    /\ UNCHANGED <<shared_vars, main_vars, worker_vars>>

HealthRaise ==
    /\ handler_pc = "health"
    /\ health_gate(config, request[1]) = "raise"
    /\ response' = Some(_generic_exc_handler)
    /\ handler_log' = "unhandled_exception"
    /\ handler_pc' = "respond"
    /\ UNCHANGED <<request, handler_seen, cache_lock>>
    /\ UNCHANGED <<shared_vars, main_vars, worker_vars>>

HealthPass ==
    /\ handler_pc = "health"
    /\ health_gate(config, request[1]) = "pass"
    /\ handler_pc' = "last_sync_if"
    /\ UNCHANGED <<request, handler_seen, handler_log, response, cache_lock>>
    /\ UNCHANGED <<shared_vars, main_vars, worker_vars>>

\* line 307, the condition: last_sync_time is read without cache_lock
HealthReadCondition ==
    /\ handler_pc = "last_sync_if"
    /\ handler_seen' = last_sync_time
    /\ handler_pc' = "last_sync_value"
    /\ UNCHANGED <<request, handler_log, response, cache_lock>>
    /\ UNCHANGED <<shared_vars, main_vars, worker_vars>>

\* line 307, the value: last_sync_time is read again, then the response is built
HealthRespond ==
    /\ handler_pc = "last_sync_value"
    /\ response' = Some(health_response(handler_seen, last_sync_time))
    /\ handler_pc' = "respond"
    /\ UNCHANGED <<request, handler_seen, handler_log, cache_lock>>
    /\ UNCHANGED <<shared_vars, main_vars, worker_vars>>

CatchAllNotFound ==
    /\ handler_pc = "catch_all"
    /\ catch_all_gate(config, request[1]).outcome = "not_found"
    /\ response' = Some(_not_found)
    /\ handler_log' = catch_all_gate(config, request[1]).log
    /\ handler_pc' = "respond"
    /\ UNCHANGED <<request, handler_seen, cache_lock>>
    /\ UNCHANGED <<shared_vars, main_vars, worker_vars>>

CatchAllRaise ==
    /\ handler_pc = "catch_all"
    /\ catch_all_gate(config, request[1]).outcome = "raise"
    /\ response' = Some(_generic_exc_handler)
    /\ handler_log' = catch_all_gate(config, request[1]).log
    /\ handler_pc' = "respond"
    /\ UNCHANGED <<request, handler_seen, cache_lock>>
    /\ UNCHANGED <<shared_vars, main_vars, worker_vars>>

CatchAllPass ==
    /\ handler_pc = "catch_all"
    /\ catch_all_gate(config, request[1]).outcome = "pass"
    /\ handler_pc' = "lock"
    /\ UNCHANGED <<request, handler_seen, handler_log, response, cache_lock>>
    /\ UNCHANGED <<shared_vars, main_vars, worker_vars>>

\* line 342: with cache_lock
CatchAllAcquire ==
    /\ handler_pc = "lock"
    /\ cache_lock = "free"
    /\ cache_lock' = "handler"
    /\ handler_pc' = "serve"
    /\ UNCHANGED <<request, handler_seen, handler_log, response>>
    /\ UNCHANGED <<shared_vars, main_vars, worker_vars>>

\* catch_all taking the document out of the store as it serves it
CatchAllServe_consumes ==
    /\ handler_pc = "serve"
    /\ response' = Some(calendar_response(config, calendar_cache))
    /\ handler_pc' = "unlock"
    /\ calendar_cache' = None
    /\ UNCHANGED <<request, handler_seen, handler_log, cache_lock>>
    /\ UNCHANGED <<config, view_window, last_sync_time, clock, attempts, cache_by, time_by>>
    /\ UNCHANGED <<main_vars, worker_vars>>

\* lines 342-357, inside the with block
CatchAllServe ==
    /\ handler_pc = "serve"
    /\ response' = Some(calendar_response(config, calendar_cache))
    /\ handler_pc' = "unlock"
    /\ UNCHANGED <<request, handler_seen, handler_log, cache_lock>>
    /\ UNCHANGED <<shared_vars, main_vars, worker_vars>>

\* the 503 returned from inside the with block leaving the lock held
CatchAllRelease_leaks_on_503 ==
    /\ handler_pc = "unlock"
    /\ cache_lock' = IF response[1].status = 503 THEN cache_lock ELSE "free"
    /\ handler_pc' = "respond"
    /\ UNCHANGED <<request, handler_seen, handler_log, response>>
    /\ UNCHANGED <<shared_vars, main_vars, worker_vars>>

\* leaving the with block on return
CatchAllRelease ==
    /\ handler_pc = "unlock"
    /\ cache_lock' = "free"
    /\ handler_pc' = "respond"
    /\ UNCHANGED <<request, handler_seen, handler_log, response>>
    /\ UNCHANGED <<shared_vars, main_vars, worker_vars>>

\* the response is sent and the event loop takes the next request
SendResponse ==
    /\ handler_pc = "respond"
    /\ request' = None
    /\ response' = None
    /\ handler_log' = "none"
    /\ handler_pc' = "idle"
    /\ handler_seen' = None
    /\ UNCHANGED cache_lock
    /\ UNCHANGED <<shared_vars, main_vars, worker_vars>>

Main ==
    \/ MainFetchOk \/ MainFetchFail \/ MainAcquire \/ MainWriteCache
    \/ MainWriteTime \/ MainRelease \/ MainStartWorker \/ MainRunServer

Worker ==
    \/ WorkerFetchOk \/ WorkerFetchFail \/ WorkerAcquire \/ WorkerWriteCache
    \/ WorkerWriteTime \/ WorkerRelease \/ WorkerSleep

Handler ==
    \/ RouteMethodNotAllowed \/ RouteHealth \/ RouteCatchAll
    \/ HealthNotFound \/ HealthRaise \/ HealthPass \/ HealthReadCondition \/ HealthRespond
    \/ CatchAllNotFound \/ CatchAllRaise \/ CatchAllPass
    \/ CatchAllAcquire \/ CatchAllServe \/ CatchAllRelease \/ SendResponse

Next == Main \/ Worker \/ Handler

Spec == Init /\ [][Next]_vars

\* The configurations under which the progress properties are checked: a
\* secret and a calendar name are configured, the health gate is on or off.
ServingConfigs ==
    {cfg \in Configs : /\ cfg.token = Some(Secret)
                       /\ cfg.name # None
                       /\ cfg.secure_healthcheck \in {None, Some(FALSE)}}

InitServing == config \in ServingConfigs /\ InitGlobals

\* the steps of a handler once the event loop has taken its request
HandlerProgress ==
    \/ HealthNotFound \/ HealthRaise \/ HealthPass \/ HealthReadCondition \/ HealthRespond
    \/ CatchAllNotFound \/ CatchAllRaise \/ CatchAllPass
    \/ CatchAllServe \/ CatchAllRelease

\* the with block of lines 284-286 once entered
WorkerReplace == WorkerWriteCache \/ WorkerWriteTime \/ WorkerRelease

\* Handlers run to their response and a refresher inside the with block runs
\* to its end; a handler waiting for cache_lock gets it if it is free again
\* and again.  Nothing is assumed of fetch_calendar_events, of time.sleep or
\* of the arrival of requests.
FairServing ==
    /\ InitServing /\ [][Next]_vars
    /\ WF_vars(HandlerProgress)
    /\ SF_vars(CatchAllAcquire)
    /\ WF_vars(WorkerReplace)

\* The threads of main and of the worker are scheduled, fetch_calendar_events
\* and time.sleep return, a handler inside its with block runs to its end,
\* and a worker waiting for cache_lock gets it if it is free again and again.
FairRefreshing ==
    /\ InitServing /\ [][Next]_vars
    /\ WF_vars(Main)
    /\ WF_vars(WorkerFetchOk \/ WorkerFetchFail \/ WorkerSleep \/ WorkerReplace)
    /\ SF_vars(WorkerAcquire)
    /\ WF_vars(HandlerProgress)

(***************************************************************************)
(* Vocabulary of the properties, stated without the handlers' operators.   *)
(***************************************************************************)
PresentedTokens == {<<>>, Secret, <<"s">>, <<"é">>}

CalendarUrl(cfg) ==
    <<"/", "cal", "/">> \o (IF cfg.name = None THEN <<"calendar">> ELSE cfg.name[1])
                        \o <<".ics">>

NoSecretConfigured(cfg) == cfg.token = None \/ cfg.token = Some(<<>>)

HasBearer(r) == \E t \in PresentedTokens : r.authorization = Some(Bearer \o t)

BearerToken(r) == CHOOSE t \in PresentedTokens : r.authorization = Some(Bearer \o t)

\* the credential a request presents: the Bearer header, else the token parameter
PresentedCredential(r) == IF HasBearer(r) THEN Some(BearerToken(r)) ELSE r.token

ValidCredential(cfg, r) ==
    ~NoSecretConfigured(cfg) /\ PresentedCredential(r) = cfg.token

Responded == request # None /\ response # None

IsCalendarRequest ==
    request # None /\ request[1].method = "GET" /\ request[1].path = CalendarUrl(config)

IsHealthRequest ==
    request # None /\ request[1].method = "GET" /\ request[1].path = HealthPath

IsOtherRequest ==
    request # None /\ ~IsCalendarRequest /\ ~IsHealthRequest

ValidCalendarRequest == IsCalendarRequest /\ ValidCredential(config, request[1])

CanonicalNotFound ==
    [status |-> 404, media_type |-> None, body |-> <<>>,
     headers |-> [content_disposition |-> None, cache_control |-> None]]

(***************************************************************************)
(* C1: a GET for a path that is neither the calendar path nor /health, and *)
(* a request with another method for any path, is answered 404 with an     *)
(* empty body whatever credential it carries and whatever the snapshot is; *)
(* the handler never reaches the credential check (it logs nothing about   *)
(* the token, raises nothing and never goes on to the snapshot).           *)
(***************************************************************************)
C1_OtherRequests404 ==
    IsOtherRequest =>
        /\ handler_pc \in {"catch_all", "respond"}
        /\ handler_log = "none"
        /\ response # None => /\ response[1].status = 404
                              /\ response[1].body = <<>>

C1_Witness ==
    /\ Responded
    /\ request[1].method = "GET"
    /\ request[1].path = <<"/", "wrong.ics">>
    /\ request[1].token = Some(Secret)
    /\ config.token = Some(Secret)
    /\ calendar_cache # None
    /\ response[1].status = 404

(***************************************************************************)
(* C2: a request for the calendar path with no secret configured, with no  *)
(* credential or with a credential that differs from the secret is         *)
(* answered by the opaque 404, never 200, 401, 403 or 503, whether the     *)
(* snapshot is empty or not; it never goes on to the snapshot.             *)
(***************************************************************************)
C2_BadCredential404 ==
    (IsCalendarRequest /\ ~ValidCredential(config, request[1])) =>
        /\ handler_pc \in {"catch_all", "respond"}
        /\ response # None => response[1] = CanonicalNotFound

C2_Witness ==
    /\ Responded
    /\ IsCalendarRequest
    /\ config.token = Some(Secret)
    /\ request[1].authorization = None
    /\ request[1].token = Some(<<"s">>)
    /\ calendar_cache # None
    /\ response[1].status = 404

(***************************************************************************)
(* C3: a request for the calendar path with a valid credential is never    *)
(* rejected, and when the snapshot is not empty at its read (made while    *)
(* it holds cache_lock) the response is 200, its body is the document the  *)
(* store holds, its content type is text/calendar and its                  *)
(* Content-Disposition names <calendar-name>.ics.                          *)
(***************************************************************************)
C3_ValidServes200 ==
    ValidCalendarRequest =>
        /\ handler_log = "none"
        /\ response # None => response[1].status \in {200, 503}
        /\ (handler_pc = "unlock" /\ calendar_cache # None) =>
              /\ cache_lock = "handler"
              /\ response[1].status = 200
              /\ response[1].body = calendar_cache[1]
              /\ response[1].media_type = Some("text/calendar")
              /\ response[1].headers.content_disposition =
                    Some(<<"attachment; filename=">>
                         \o (IF config.name = None THEN <<"calendar">> ELSE config.name[1])
                         \o <<".ics">>)

C3_Witness ==
    /\ ValidCalendarRequest
    /\ handler_pc = "unlock"
    /\ cache_by = 2
    /\ response[1].status = 200
    /\ response[1].body = <<"BEGIN:VCALENDAR", <<"VEVENT", "item1">>, "END:VCALENDAR">>
    /\ worker_pc = "lock"

(***************************************************************************)
(* C4: a request for the calendar path with a valid credential read while  *)
(* no refresh has ever succeeded is answered 503, and 503 is the response  *)
(* to nothing else.                                                        *)
(***************************************************************************)
C4_EmptySnapshot503 ==
    /\ (ValidCalendarRequest /\ handler_pc = "unlock" /\ calendar_cache = None) =>
           /\ cache_by = 0 /\ time_by = 0
           /\ response[1].status = 503
    /\ (Responded /\ response[1].status = 503) =>
           /\ ValidCalendarRequest
           /\ handler_pc = "unlock" => (calendar_cache = None /\ cache_by = 0)

C4_Witness ==
    /\ ValidCalendarRequest
    /\ handler_pc = "unlock"
    /\ attempts = 2
    /\ calendar_cache = None
    /\ response[1].status = 503

(***************************************************************************)
(* C5: a refresh attempt whose fetch fails, in the initial sync or in the  *)
(* background loop, leaves the snapshot as it was: the document and the    *)
(* timestamp are unchanged, and the only steps that change either are the  *)
(* writes of a thread that fetched successfully and holds cache_lock.      *)
(***************************************************************************)
FailedAttemptStep ==
    \/ worker_pc = "fetch" /\ worker_pc' = "sleep"
    \/ main_pc = "initial_fetch" /\ main_pc' = "start_worker"

C5_FailedRefreshKeepsSnapshot ==
    [][ /\ FailedAttemptStep =>
              /\ attempts' = attempts + 1
              /\ calendar_cache' = calendar_cache
              /\ last_sync_time' = last_sync_time
        /\ (calendar_cache' # calendar_cache \/ last_sync_time' # last_sync_time) =>
              \/ cache_lock = "worker" /\ worker_pc \in {"write_cache", "write_time"}
              \/ cache_lock = "main"
                   /\ main_pc \in {"initial_write_cache", "initial_write_time"} ]_vars

C5_Witness ==
    /\ worker_pc = "sleep"
    /\ attempts = 3
    /\ cache_by = 1
    /\ time_by = 1
    /\ calendar_cache # None
    /\ last_sync_time = Some(FetchSeconds)

(***************************************************************************)
(* C6: a successful refresh replaces the snapshot wholesale: when its      *)
(* timestamp is written the store holds the document just fetched, and     *)
(* document and timestamp both come from this attempt.  The timestamp is   *)
(* never removed, never decreases, and is strictly later after every       *)
(* successful refresh, the initial sync included.                          *)
(***************************************************************************)
C6_SuccessfulRefreshReplaces ==
    [][ /\ (time_by' # time_by \/ last_sync_time' # last_sync_time) =>
              /\ last_sync_time' # None
              /\ last_sync_time # None => last_sync_time'[1] > last_sync_time[1]
              /\ time_by' = attempts /\ cache_by' = attempts
              /\ calendar_cache' = IF worker_pc = "write_time" THEN worker_ical ELSE main_ical
              /\ calendar_cache' # None
        /\ (worker_pc' = "sleep" /\ worker_pc = "unlock") => time_by' = attempts
        /\ (main_pc' = "start_worker" /\ main_pc = "initial_unlock") => time_by' = attempts
        /\ (worker_pc' # "write_time" /\ main_pc' # "initial_write_time") =>
              cache_by' = time_by' ]_vars

C6_Witness ==
    /\ worker_pc = "sleep"
    /\ cache_by = 3
    /\ time_by = 3
    /\ last_sync_time = Some(3 * FetchSeconds + sync_interval(config))
    /\ calendar_cache = Some(<<"BEGIN:VCALENDAR", "END:VCALENDAR">>)

(***************************************************************************)
(* C7: whenever a request handler reads calendar_cache or last_sync_time,  *)
(* the two values come from the same refresh: no handler reads while the   *)
(* document of a new refresh is stored with the timestamp of the previous  *)
(* one, or with none.                                                      *)
(***************************************************************************)
HandlerReads == handler_pc \in {"serve", "last_sync_if", "last_sync_value"}

C7_ReadersSeeMatchingPair == HandlerReads => cache_by = time_by

(***************************************************************************)
(* C8: every rejected request gets one and the same response, whatever the *)
(* reason (method, path, credential on the calendar path, no secret, gated *)
(* health, an exception raised in a handler): status 404, empty body, no   *)
(* content type, no header of its own.  Every response other than the 200  *)
(* and 503 of an admitted request is this response.                        *)
(***************************************************************************)
HealthGated(cfg) == cfg.secure_healthcheck # Some(FALSE)

ValidBearer(cfg, r) ==
    ~NoSecretConfigured(cfg) /\ HasBearer(r) /\ Some(BearerToken(r)) = cfg.token

Rejected ==
    \/ IsOtherRequest
    \/ IsCalendarRequest /\ ~ValidCredential(config, request[1])
    \/ IsHealthRequest /\ HealthGated(config) /\ ~ValidBearer(config, request[1])

C8_RejectionsIndistinguishable ==
    /\ _validation_exc_handler = CanonicalNotFound
    /\ Responded =>
          /\ Rejected => response[1] = CanonicalNotFound
          /\ handler_log # "none" => response[1] = CanonicalNotFound
          /\ response[1].status \notin {200, 503} => response[1] = CanonicalNotFound
          /\ ~Rejected => response[1].status \in {200, 503}

C8_Witness ==
    /\ Responded
    /\ handler_log = "unhandled_exception"
    /\ IsCalendarRequest
    /\ response[1] = CanonicalNotFound

(***************************************************************************)
(* C9, as stated: a request for the health path gets 404 whenever no       *)
(* secret is configured, and whenever secure-health-check is enabled and   *)
(* the request carries no credential.                                      *)
(***************************************************************************)
C9_HealthNoSecretAlways404 ==
    (Responded /\ IsHealthRequest
       /\ (\/ NoSecretConfigured(config)
           \/ HealthGated(config) /\ request[1].authorization = None)) =>
        response[1].status = 404

(***************************************************************************)
(* C9, amended: a request for the health path gets the opaque 404 whenever *)
(* secure-health-check is enabled (true or absent) and either no secret is *)
(* configured or the request carries no Authorization header.              *)
(***************************************************************************)
C9_GatedHealth404 ==
    (IsHealthRequest /\ HealthGated(config)
       /\ (NoSecretConfigured(config) \/ request[1].authorization = None)) =>
        /\ handler_pc \in {"health", "respond"}
        /\ response # None => response[1] = CanonicalNotFound

C9_Witness ==
    /\ Responded
    /\ IsHealthRequest
    /\ config.secure_healthcheck = None
    /\ config.token = None
    /\ request[1].authorization = Some(Bearer \o Secret)
    /\ response[1].status = 404

(***************************************************************************)
(* C10: a request for the health path with the correct Bearer credential   *)
(* gets 200 with status "healthy"; its last_sync is null when the store    *)
(* held no timestamp at the handler's read and otherwise the timestamp the *)
(* store holds when the handler reads it.  The store's timestamp is only   *)
(* ever written by a refresh that fetched successfully and has already     *)
(* stored its document, so last_sync never shows the time of a failed      *)
(* refresh or of one whose document is not yet in the store.               *)
(***************************************************************************)
HealthOkRequest == IsHealthRequest /\ ValidBearer(config, request[1])

C10_HealthReportsLastSync ==
    [][ /\ (HealthOkRequest /\ response' # None /\ request' = request) =>
              /\ response'[1].status = 200
              /\ response'[1].body[1] = "status" /\ response'[1].body[2] = "healthy"
              /\ response'[1].body[3] = "last_sync"
        /\ (HealthOkRequest /\ response = None /\ response' # None) =>
              response'[1].body[4] =
                  IF handler_seen = None THEN None
                  ELSE <<"iso8601", last_sync_time[1]>>
        /\ last_sync_time' # last_sync_time =>
              /\ cache_by' = attempts /\ time_by' = attempts
              /\ calendar_cache' # None
              /\ (worker_pc = "write_time" \/ main_pc = "initial_write_time") ]_vars

C10_Witness ==
    /\ Responded
    /\ HealthOkRequest
    /\ time_by = 2
    /\ worker_pc = "write_time"
    /\ response[1].status = 200
    /\ response[1].body[4] = <<"iso8601", last_sync_time[1]>>

(***************************************************************************)
(* C11, as stated: while the health gate is on (flag absent or true), the  *)
(* health gate accepts a request's credential (Bearer header and/or token  *)
(* query parameter, present or absent, right or wrong) exactly when the    *)
(* calendar gate accepts the same credential.                              *)
(***************************************************************************)
OnPath(r, path) == [r EXCEPT !.path = path]

HealthAccepts(cfg, r) == health_gate(cfg, OnPath(r, HealthPath)) = "pass"

CalendarAccepts(cfg, r) == catch_all_gate(cfg, OnPath(r, CalendarUrl(cfg))).outcome = "pass"

C11_HealthGateSameAsCalendarGate ==
    (request # None /\ request[1].method = "GET" /\ HealthGated(config)) =>
        (HealthAccepts(config, request[1]) <=> CalendarAccepts(config, request[1]))

(***************************************************************************)
(* C11, amended: while the health gate is on, the health gate compares     *)
(* the same secret but takes the credential from the Bearer header only:   *)
(* it accepts exactly the requests with the correct Bearer token, every    *)
(* credential it accepts the calendar gate accepts too, and the two gates  *)
(* agree on every request that has a Bearer header or no token query       *)
(* parameter.  A request whose only credential is a correct token query    *)
(* parameter passes the calendar gate and gets 404 from the health path.   *)
(***************************************************************************)
C11_HealthGateIsBearerOnly ==
    (request # None /\ request[1].method = "GET" /\ HealthGated(config)) =>
        LET r == request[1]
            hp == HealthAccepts(config, r)
            cp == CalendarAccepts(config, r)
        IN  /\ hp <=> ValidBearer(config, r)
            /\ cp <=> ValidCredential(config, r)
            /\ hp => cp
            /\ (HasBearer(r) \/ r.token = None) => (hp <=> cp)
            /\ (IsHealthRequest /\ Responded) => (response[1].status = 200 <=> hp)
            /\ (IsCalendarRequest /\ Responded) => (response[1].status # 404 <=> cp)

C11_Witness ==
    /\ Responded
    /\ IsHealthRequest
    /\ config.secure_healthcheck = None
    /\ config.token = Some(Secret)
    /\ request[1].authorization = None
    /\ request[1].token = Some(Secret)
    /\ CalendarAccepts(config, request[1])
    /\ response[1] = CanonicalNotFound

(***************************************************************************)
(* C12, as stated: after a failed fetch attempt, the initial one of main   *)
(* included, no further fetch attempt starts until a full sync_interval    *)
(* sleep has elapsed.                                                      *)
(***************************************************************************)
\* a fetch attempt ends in this step
FetchAttemptStep == attempts' = attempts + 1

\* no fetch is running and the last one failed: its document was never stored
LastFetchFailed ==
    /\ attempts >= 1
    /\ cache_by # attempts
    /\ main_pc \in {"start_worker", "run_server", "serving"}
    /\ worker_pc \in {"not_started", "fetch", "sleep"}

C12_NoRetryBeforeFullSleep ==
    [][ (LastFetchFailed /\ FetchAttemptStep) => slept ]_vars

(***************************************************************************)
(* C13: when the initial synchronous fetch of main fails, the process does *)
(* not exit: main goes on to start the background loop and then the HTTP   *)
(* server, both steps are enabled, the store is empty until a refresh of   *)
(* the loop stores a document, and a valid calendar request served in the  *)
(* meantime gets 503 (200 once a refresh has stored a document).           *)
(***************************************************************************)
InitialSyncFailed == main_pc # "initial_fetch" /\ main_ical = None

C13_InitialFailureStillServes ==
    InitialSyncFailed =>
        /\ main_pc \in {"start_worker", "run_server", "serving"}
        /\ main_pc = "start_worker" => (worker_pc = "not_started" /\ ENABLED MainStartWorker)
        /\ main_pc = "run_server" => (worker_pc # "not_started" /\ ENABLED MainRunServer)
        /\ main_pc = "serving" => worker_pc # "not_started"
        /\ (main_pc = "serving" /\ handler_pc = "idle") => ENABLED RouteCatchAll
        /\ cache_by \notin {1}
        /\ cache_by = 0 => (calendar_cache = None /\ last_sync_time = None)
        /\ (ValidCalendarRequest /\ handler_pc = "unlock") =>
               /\ cache_by = 0 => response[1].status = 503
               /\ cache_by >= 2 => response[1].status = 200

C13_Witness ==
    /\ InitialSyncFailed
    /\ main_pc = "serving"
    /\ worker_pc = "sleep"
    /\ cache_by = 0
    /\ ValidCalendarRequest
    /\ Responded
    /\ handler_pc = "respond"
    /\ response[1].status = 503

(***************************************************************************)
(* C14: reads do not change the store.  No step of a request handler       *)
(* (calendar or health, admitted or rejected) changes the document or the  *)
(* timestamp of the store; the document changes only in a replace step of  *)
(* a refresh; and every 200 of the calendar path carries exactly the       *)
(* document the store holds, so all valid calendar requests served between *)
(* two consecutive replaces return the same document.                      *)
(***************************************************************************)
HandlerStep == handler_vars' # handler_vars

ReplaceStep == cache_by' # cache_by

C14_ReadsDoNotChangeStore ==
    [][ /\ HandlerStep =>
              /\ calendar_cache' = calendar_cache
              /\ last_sync_time' = last_sync_time
              /\ ~ReplaceStep
        /\ calendar_cache' # calendar_cache =>
              (ReplaceStep /\ (worker_pc = "write_cache" \/ main_pc = "initial_write_cache"))
        /\ (response = None /\ response' # None /\ response'[1].status = 200
               /\ IsCalendarRequest) =>
              /\ calendar_cache # None
              /\ response'[1].body = calendar_cache[1]
              /\ response'[1].body = calendar_cache'[1] ]_vars

C14_Witness ==
    /\ Responded
    /\ ValidCalendarRequest
    /\ handler_pc = "respond"
    /\ response[1].status = 200
    /\ response[1].body = calendar_cache[1]
    /\ cache_by = 1
    /\ attempts = 3
    /\ worker_pc = "sleep"

(***************************************************************************)
(* C15: the refresh side holds cache_lock only during the replace.  In     *)
(* every state in which the background loop is not started, fetching,      *)
(* waiting for the lock or sleeping, the loop does not hold cache_lock,    *)
(* and likewise main outside the replace of its initial sync; the lock is  *)
(* held by a refresher exactly between its acquire and its release, where  *)
(* it only assigns the document and the timestamp.                         *)
(***************************************************************************)
WorkerReplacing == worker_pc \in {"write_cache", "write_time", "unlock"}

MainReplacing == main_pc \in {"initial_write_cache", "initial_write_time", "initial_unlock"}

C15_LockHeldOnlyDuringReplace ==
    /\ worker_pc \in {"not_started", "fetch", "lock", "sleep"} => cache_lock # "worker"
    /\ main_pc \in {"initial_fetch", "initial_lock", "start_worker", "run_server", "serving"} =>
           cache_lock # "main"
    /\ cache_lock = "worker" <=> WorkerReplacing
    /\ cache_lock = "main" <=> MainReplacing

C15_Witness ==
    /\ worker_pc = "sleep"
    /\ slept = FALSE
    /\ attempts = 2
    /\ cache_by = 2
    /\ cache_lock = "handler"
    /\ handler_pc = "serve"

(***************************************************************************)
(* C18: on the calendar path the credential sources are taken in priority  *)
(* order.  When the request has an Authorization header starting with      *)
(* "Bearer ", the request is admitted exactly when the header's token is   *)
(* the secret, whatever the token query parameter is (a wrong or empty     *)
(* Bearer token with a correct query token gets 404); the token query      *)
(* parameter decides only when there is no Bearer header.                  *)
(***************************************************************************)
Admitted == response[1].status \in {200, 503}

C18_BearerBeforeQueryToken ==
    (IsCalendarRequest /\ Responded /\ ~NoSecretConfigured(config)) =>
        LET r == request[1]
        IN  /\ HasBearer(r) => (Admitted <=> BearerToken(r) = Secret)
            /\ ~HasBearer(r) => (Admitted <=> r.token = Some(Secret))
            /\ ~Admitted => response[1] = CanonicalNotFound

C18_Witness ==
    /\ IsCalendarRequest
    /\ Responded
    /\ config.token = Some(Secret)
    /\ request[1].authorization = Some(Bearer \o <<"s">>)
    /\ request[1].token = Some(Secret)
    /\ handler_log = "invalid_token"
    /\ response[1] = CanonicalNotFound

(***************************************************************************)
(* C19: once the snapshot is non-empty it never becomes empty again.  No   *)
(* step (fetch success, fetch failure, replace, sleep, request) takes the  *)
(* document or the timestamp of the store back to absent, and the number   *)
(* of the refresh that stored the document never goes back; a 503 is       *)
(* produced only while no refresh has stored a document yet and a 200 only *)
(* after one has, so after a valid calendar request has received 200 no    *)
(* later one receives 503.                                                 *)
(***************************************************************************)
Produces(status) == response = None /\ response' # None /\ response'[1].status = status

C19_NonEmptySnapshotStays ==
    [][ /\ calendar_cache # None => calendar_cache' # None
        /\ last_sync_time # None => last_sync_time' # None
        /\ cache_by' >= cache_by /\ time_by' >= time_by
        /\ cache_by >= 1 => (calendar_cache # None /\ calendar_cache' # None)
        /\ Produces(503) => (cache_by = 0 /\ calendar_cache = None)
        /\ (Produces(200) /\ IsCalendarRequest) => (cache_by >= 1 /\ calendar_cache # None) ]_vars

C19_Witness ==
    /\ main_ical # None
    /\ cache_by = 1
    /\ attempts = 3
    /\ worker_pc = "sleep"
    /\ calendar_cache = main_ical
    /\ ValidCalendarRequest
    /\ handler_pc = "unlock"
    /\ response[1].status = 200

(***************************************************************************)
(* C20, as stated: each fetch asks upstream for the events from            *)
(* (now - days_past days) to (now + days_future days), with the configured *)
(* values or their defaults of 30 and 365.                                 *)
(***************************************************************************)
C20_WindowFromPastToFuture ==
    view_window # None =>
        LET w == view_window[1]
        IN  /\ w.start = w.now - get(config.days_past, 30) * 86400
            /\ w.end = w.now + get(config.days_future, 365) * 86400

(***************************************************************************)
(* C16: request handling never blocks on the refresh loop.  With handlers  *)
(* and the replace step scheduled fairly, and nothing assumed of the       *)
(* upstream fetch (it may never return), every request the HTTP layer has  *)
(* accepted eventually has its response; cache_lock is held by at most one *)
(* party at a time, namely the one inside its with block; and every holder *)
(* releases it, the handler returning 503 from inside the block included.  *)
(***************************************************************************)
HandlerHolding == handler_pc \in {"serve", "unlock"}

C16_HandlersNeverBlock ==
    /\ [](/\ cache_lock = "handler" <=> HandlerHolding
          /\ cache_lock = "worker" <=> WorkerReplacing
          /\ cache_lock = "main" <=> MainReplacing
          /\ ~(HandlerHolding /\ WorkerReplacing)
          /\ ~(HandlerHolding /\ MainReplacing)
          /\ ~(WorkerReplacing /\ MainReplacing)
          /\ request # None => main_pc = "serving"
          /\ (response # None /\ response[1].status = 503 /\ handler_pc = "respond") =>
                 cache_lock # "handler")
    /\ (request # None /\ response = None) ~> (response # None)
    /\ (cache_lock \in {"handler", "worker"}) ~> (cache_lock = "free")

C16_Witness ==
    /\ handler_pc = "lock"
    /\ response = None
    /\ cache_lock = "worker"
    /\ worker_pc = "write_time"
    /\ ValidCalendarRequest

(***************************************************************************)
(* C17: the background refresh loop has no terminal state.  The loop only  *)
(* moves along fetch -> (replace ->) sleep -> fetch; a fetch attempt that  *)
(* fails, like one that succeeds, leads to the sleep of sync_interval and  *)
(* from there to the start of another fetch attempt; and with the threads  *)
(* scheduled fairly the attempts go on: every attempt the bound allows is  *)
(* eventually made, however many of them fail.                             *)
(***************************************************************************)
LoopEdges ==
    { <<"not_started", "fetch">>, <<"fetch", "lock">>, <<"fetch", "sleep">>,
      <<"lock", "write_cache">>, <<"write_cache", "write_time">>,
      <<"write_time", "unlock">>, <<"unlock", "sleep">>, <<"sleep", "fetch">> }

C17_LoopNeverStops ==
    /\ [][ /\ worker_pc' # worker_pc => <<worker_pc, worker_pc'>> \in LoopEdges
           /\ (worker_pc = "fetch" /\ FetchAttemptStep) => worker_pc' \in {"lock", "sleep"}
           /\ (worker_pc = "sleep" /\ worker_pc' # worker_pc) =>
                  (worker_pc' = "fetch" /\ clock' = clock + sync_interval(config)) ]_vars
    /\ (worker_pc \in {"lock", "write_cache", "write_time", "unlock", "sleep"})
           ~> (worker_pc = "fetch" /\ slept)
    /\ <>(worker_pc = "fetch" /\ attempts = MaxAttempts)

C17_Witness ==
    /\ worker_pc = "fetch"
    /\ slept
    /\ attempts = MaxAttempts
    /\ cache_by = 0
    /\ calendar_cache = None
    /\ main_pc = "serving"

====
